---- MODULE Spec2Model ----
(***************************************************************************)
(* A model of mete_distributions.py: the METE and AGSNE distribution       *)
(* classes, their pdf/pmf/cdf/logpmf methods and the two sampling loops    *)
(* sad_agsne.rvs and theta_epsilon.rvs.                                    *)
(*                                                                         *)
(* Floats are fixed-point numbers: the integer v stands for v / Unit, and  *)
(* every float operation rounds its result to the nearest representable    *)
(* value (ties to even), as IEEE arithmetic does.  Python ints that are    *)
(* state variables or abundances (S, N, E, N0, E0, m, n, size, i, j) are   *)
(* plain integers.  An argument x carries its Python type: isinstance(x,   *)
(* int) is x.isint, and its value is the fixed-point x.v.                  *)
(***************************************************************************)
EXTENDS Integers, Sequences, FiniteSets, TLC

\* ------------------------------------------------------------- bounds

\* float resolution: one unit in the last place is 1 / Unit
Unit == 1000
\* largest species count S, abundance N (N0) and energy E (E0) of an instance
MaxS == 2
MaxN == 5
MaxE == 3
\* largest size asked of rvs
MaxSize == 2
\* panels of the quadrature rule
QuadPanels == 2

\* ------------------------------------------------- float arithmetic

Abs(v) == IF v < 0 THEN -v ELSE v

RoundPos(a, b) ==
    LET q == a \div b
        r == a % b
    IN  IF 2 * r < b THEN q
        ELSE IF 2 * r > b THEN q + 1
        ELSE IF q % 2 = 0 THEN q ELSE q + 1

\* a / b for a fixed-point a and a plain integer b (or the raw quotient)
RoundDiv(a, b) == IF b > 0 THEN RoundPos(a, b) ELSE RoundPos(-a, -b)

\* float * float and float / float
Mul(a, b) == RoundDiv(a * b, Unit)
Div(a, b) == RoundDiv(a * Unit, b)

RECURSIVE ExpSeries(_, _, _)
ExpSeries(f, term, k) ==
    IF term = 0 THEN 0
    ELSE term + ExpSeries(f, RoundDiv(Mul(term, f), k + 1), k + 1)

RECURSIVE ExpPos(_)
ExpPos(t) ==
    IF t > Unit THEN Mul(ExpSeries(Unit, Unit, 0), ExpPos(t - Unit))
    ELSE ExpSeries(t, Unit, 0)

\* exp(t); below -7.6 (exp(7.6) is about 2000) the nearest multiple of
\* 1 / Unit to the quotient is 0
Exp(t) ==
    IF t >= 0 THEN ExpPos(t)
    ELSE IF 10 * (-t) > 76 * Unit THEN 0
    ELSE Div(Unit, ExpPos(-t))

RECURSIVE LogSeries(_, _, _)
LogSeries(y, pow, k) ==
    IF pow = 0 THEN 0
    ELSE RoundDiv(pow, k) + LogSeries(y, Mul(pow, y), k + 1)

RECURSIVE Log(_)
\* log(v) for v > 0
Log(v) ==
    IF 2 * v > 3 * Unit
      THEN LogSeries(Unit \div 2, Unit \div 2, 1) + Log(RoundDiv(v, 2))
    ELSE IF 4 * v < 3 * Unit
      THEN Log(2 * v) - LogSeries(Unit \div 2, Unit \div 2, 1)
    ELSE IF v <= Unit
      THEN -LogSeries(Unit - v, Unit - v, 1)
    ELSE LogSeries(Unit - Div(Unit, v), Unit - Div(Unit, v), 1)

RECURSIVE Pow(_, _)
\* g ** k for a float g and an int k >= 0
Pow(g, k) == IF k = 0 THEN Unit ELSE Mul(g, Pow(g, k - 1))

RECURSIVE SumSeq(_)
\* sum(...) of a list or array, left to right from 0
SumSeq(s) ==
    IF s = << >> THEN 0
    ELSE SumSeq(SubSeq(s, 1, Len(s) - 1)) + s[Len(s)]

\* int(np.floor(x))
Floor(v) == v \div Unit

\* mpmath.quad(F, [lo, hi]): a midpoint rule on QuadPanels panels; like
\* the library it integrates backwards (a negated result) when hi < lo
QuadNode(k, lo, hi) ==
    lo + RoundDiv((2 * k - 1) * (hi - lo), 2 * QuadPanels)

\* f[k] is the integrand at QuadNode(k, lo, hi)
Quad(f, lo, hi) ==
    SumSeq([k \in 1..QuadPanels |->
              Mul(f[k], RoundDiv(hi - lo, QuadPanels))])

\* ------------------------------------------------------------ inputs

\* (beta, lambda2) as get_beta and get_lambda2 return them
MeteParams == {<<500, 100>>, <<900, 300>>}
\* pars = [lambda1, beta, lambda3, z]
AgsneParams == {<<250, 210, 100, 0>>, <<500, 50, 20, 0>>}

IntArg(k) == [isint |-> TRUE, v |-> k * Unit]
FloatArg(v) == [isint |-> FALSE, v |-> v]
NoArg == IntArg(0)

\* one past the largest upper bound b of any instance
MaxArg == (IF MaxN > MaxE THEN MaxN ELSE MaxE) + 1

\* arguments x: the ints 0 .. MaxArg and the floats 0.0, 0.5, .. MaxArg
XInputs ==
    {IntArg(k) : k \in 0..MaxArg} \cup
    {FloatArg(k * (Unit \div 2)) : k \in 0..(2 * MaxArg)}

\* what scipy.stats.uniform.rvs draws: floats in [0, 1)
Uniforms == {0, Unit \div 2, Unit - 1}

\* what trunc_expon.rvs(rate, 1) draws: floats from the lower bound 1 up
Draws == {k * (Unit \div 2) : k \in 2..(2 * (MaxE + 1))}

\* the value of get_integral_for_psi_cdf, an integral this module imports
Integrals == {-(Unit \div 10), 0, Unit \div 10}

\* statvar = [G, S, N, E], varied in what the class reads
GammaStatVars == {<<1, S, MaxN, MaxE>> : S \in 1..MaxS}
SadStatVars == {<<1, 1, N, MaxE>> : N \in 1..MaxN}
PsiStatVars == {<<1, S, MaxN, E>> : S \in 1..MaxS, E \in 2..MaxE}
ThetaStatVars == {<<1, 1, MaxN, E>> : E \in 2..MaxE}

\* m and n: species in the genus, individuals in the species
Abundances == 1..MaxS

\* the module's global S: unbound, or bound by one of the star imports
Globals ==
    {[bound |-> FALSE, val |-> 0]} \cup
    {[bound |-> TRUE, val |-> k] : k \in 1..MaxS}

\* ----------------------------------------------------------- results

Value(v) == [kind |-> "value", val |-> v, arr |-> << >>]
NoneResult == [kind |-> "None", val |-> 0, arr |-> << >>]
Raised(e) == [kind |-> e, val |-> 0, arr |-> << >>]
ArrayResult(s) == [kind |-> "array", val |-> 0, arr |-> s]
ListResult(s) == [kind |-> "list", val |-> 0, arr |-> s]
Pending == [kind |-> "pending", val |-> 0, arr |-> << >>]

\* a <= x <= b
InSupport(o, x) == o.a <= x.v /\ x.v <= o.b

\* -------------------------------------------------------- psi_epsilon

psi_epsilon_init(S0, N0, E0, beta, lambda2) ==
    LET sigma == beta + (E0 - 1) * lambda2
    IN  [cls |-> "psi_epsilon", a |-> Unit, b |-> E0 * Unit, N0 |-> N0,
         beta |-> beta, lambda2 |-> lambda2, sigma |-> sigma,
         norm_factor |->
             Div(lambda2,
                 Div(Exp(-beta) - Exp(-(beta * (N0 + 1))), Unit - Exp(-beta))
                 - Div(Exp(-sigma) - Exp(-(sigma * (N0 + 1))),
                       Unit - Exp(-sigma)))]

psi_epsilon_pdf(o, x) ==
    LET exp_neg_gamma == Exp(-(o.beta + Mul(x.v - Unit, o.lambda2)))
    IN  IF InSupport(o, x)
        THEN Div(Mul(Mul(o.norm_factor, exp_neg_gamma),
                     Unit - (o.N0 + 1) * Pow(exp_neg_gamma, o.N0)
                          + o.N0 * Pow(exp_neg_gamma, o.N0 + 1)),
                 Pow(Unit - exp_neg_gamma, 2))
        ELSE 0

\* integral is what get_integral_for_psi_cdf(x, beta, lambda2, N0) returned
psi_epsilon_cdf(o, x, integral) ==
    LET int_start == Exp(-o.beta)
        int_end == Exp(-(o.beta + Mul(x.v - Unit, o.lambda2)))
    IN  Mul(Div(o.norm_factor, o.lambda2),
            Div(Unit, Unit - int_start) - Div(Unit, Unit - int_end) + integral)

\* ------------------------------------------------- psi_epsilon_approx

psi_epsilon_approx_init(S0, N0, E0, beta, lambda2) ==
    LET sigma == beta + (E0 - 1) * lambda2
    IN  [cls |-> "psi_epsilon_approx", a |-> Unit, b |-> E0 * Unit,
         N0 |-> N0, beta |-> beta, lambda2 |-> lambda2, sigma |-> sigma,
         norm_factor |->
             Div(Div(Unit, Unit - Exp(-beta)) - Div(Unit, Unit - Exp(-sigma)),
                 lambda2)]

psi_epsilon_approx_pdf(o, x) ==
    LET exp_neg_gamma == Exp(-(o.beta + Mul(x.v - Unit, o.lambda2)))
    IN  IF InSupport(o, x)
        THEN Div(Div(exp_neg_gamma, Pow(Unit - exp_neg_gamma, 2)),
                 o.norm_factor)
        ELSE 0

psi_epsilon_approx_cdf(o, x) ==
    IF InSupport(o, x)
    THEN LET exp_neg_gamma == Exp(-(o.beta + Mul(x.v - Unit, o.lambda2)))
             unscaled_cdf ==
                 Div(Div(Unit, Unit - Exp(-o.beta))
                     - Div(Unit, Unit - exp_neg_gamma), o.lambda2)
         IN  Div(unscaled_cdf, o.norm_factor)
    ELSE IF x.v < o.a THEN 0
    ELSE Unit

\* ------------------------------------------------------ theta_epsilon

theta_epsilon_init(S0, N0, E0, beta, lambda2) ==
    [cls |-> "theta_epsilon", a |-> Unit, b |-> E0 * Unit,
     beta |-> beta, lambda2 |-> lambda2, lambda1 |-> beta - lambda2,
     sigma |-> beta + (E0 - 1) * lambda2]

\* xv is the float value of x
theta_epsilon_pdf(o, xv, n) ==
    Div(Mul(o.lambda2 * n, Exp(-((o.lambda1 + Mul(o.lambda2, xv)) * n))),
        Exp(-(o.beta * n)) - Exp(-(o.sigma * n)))

theta_epsilon_cdf(o, x, n) ==
    LET pdf_n == [k \in 1..QuadPanels |->
                     theta_epsilon_pdf(o, QuadNode(k, Unit, x.v), n)]
    IN  Quad(pdf_n, Unit, x.v)

\* -------------------------------------------------------- gamma_agsne

\* np.exp(-lambda1 * k) * np.log(1 / (1 - np.exp(-beta * k)))
GammaTerm(o, k) ==
    Mul(Exp(-(o.lambda1 * k)), Log(Div(Unit, Unit - Exp(-(o.beta * k)))))

gamma_agsne_init(statvar, pars) ==
    LET lambda1 == pars[1]
        beta == pars[2]
        t == [lambda1 |-> lambda1, beta |-> beta]
    IN  [cls |-> "gamma_agsne", G |-> statvar[1], S |-> statvar[2],
         N |-> statvar[3], E |-> statvar[4],
         a |-> Unit, b |-> statvar[2] * Unit,
         lambda1 |-> lambda1, beta |-> beta, lambda3 |-> pars[3],
         z |-> pars[4],
         norm |-> SumSeq([k \in 1..statvar[2] |->
                            RoundDiv(GammaTerm(t, k), k)])]

gamma_agsne_pmf(o, x) ==
    IF InSupport(o, x) /\ x.isint
    THEN Div(RoundDiv(GammaTerm(o, Floor(x.v)), Floor(x.v)), o.norm)
    ELSE 0

gamma_agsne_cdf(o, x) ==
    IF InSupport(o, x)
    THEN LET x_int == Floor(x.v)
         IN  Div(SumSeq([k \in 1..x_int |-> Div(GammaTerm(o, k), x.v)]),
                 o.norm)
    ELSE IF x.v < o.a THEN 0
    ELSE Unit

\* ---------------------------------------------------------- sad_agsne

\* np.exp(-lambda1 - beta * k) / k / (1 - np.exp(-lambda1 - beta * k))
SadTerm(o, k) ==
    LET e == Exp(-o.lambda1 - o.beta * k)
    IN  Div(RoundDiv(e, k), Unit - e)

sad_agsne_init(statvar, pars) ==
    LET t == [lambda1 |-> pars[1], beta |-> pars[2]]
    IN  [cls |-> "sad_agsne", G |-> statvar[1], S |-> statvar[2],
         N |-> statvar[3], E |-> statvar[4],
         a |-> Unit, b |-> statvar[3] * Unit,
         lambda1 |-> pars[1], beta |-> pars[2], lambda3 |-> pars[3],
         z |-> pars[4],
         norm |-> SumSeq([k \in 1..statvar[3] |-> SadTerm(t, k)])]

sad_agsne_pmf(o, x) ==
    IF InSupport(o, x) /\ x.isint
    THEN Div(SadTerm(o, Floor(x.v)), o.norm)
    ELSE 0

sad_agsne_logpmf(o, x) ==
    IF InSupport(o, x) /\ x.isint
    THEN LET k == Floor(x.v)
         IN  Value(-o.lambda1 - o.beta * k - Log(x.v)
                   - Log(Unit - Exp(-o.lambda1 - o.beta * k)) - Log(o.norm))
    ELSE NoneResult

sad_agsne_cdf(o, x) ==
    IF InSupport(o, x)
    THEN LET x_int == Floor(x.v)
         IN  Div(SumSeq([k \in 1..x_int |-> SadTerm(o, k)]), o.norm)
    ELSE IF x.v < o.a THEN 0
    ELSE Unit

\* ---------------------------------------------------------- psi_agsne

psi_agsne_init(statvar, pars) ==
    LET S == statvar[2]
        E == statvar[4]
        lambda1 == pars[1]
        beta == pars[2]
        lambda3 == pars[3]
        lambda2 == beta - lambda3
    IN  [cls |-> "psi_agsne", G |-> statvar[1], S |-> S, N |-> statvar[3],
         E |-> E, a |-> Unit, b |-> E * Unit,
         lambda1 |-> lambda1, beta |-> beta, lambda3 |-> lambda3,
         z |-> pars[4], lambda2 |-> lambda2,
         exp_neg_lambda1 |-> Exp(-lambda1),
         norm |->
             Mul(Div(Unit, lambda3),
                 SumSeq([x \in 1..S |->
                     Mul(Exp(-(lambda1 * x)),
                         Div(Unit, Unit - Exp(-(beta * x)))
                         - Div(Unit,
                               Unit - Exp(-((lambda2 + E * lambda3) * x))))]))]

\* the sum of the series over m = 1 .. upto, over the norm
PsiAgsneSeries(o, x, upto) ==
    LET exp_neg_gamma == Exp(-(o.lambda2 + Mul(x.v, o.lambda3)))
        sum_list ==
            [m \in 1..upto |->
                Div(m * Pow(Mul(exp_neg_gamma, o.exp_neg_lambda1), m),
                    Pow(Unit - Pow(exp_neg_gamma, m), 2))]
    IN  Div(SumSeq(sum_list), o.norm)

\* the bare name S is looked up in the module's globals, g
psi_agsne_pdf(o, g, x) ==
    IF InSupport(o, x)
    THEN IF g.bound THEN Value(PsiAgsneSeries(o, x, g.val))
         ELSE Raised("NameError")
    ELSE Value(0)

psi_agsne_cdf(o, x) ==
    LET unscaled_cdf ==
            Mul(Div(Unit, o.lambda3),
                SumSeq([m \in 1..o.S |->
                    Mul(Exp(-(o.lambda1 * m)),
                        Div(Unit, Unit - Exp(-(o.beta * m)))
                        - Div(Unit,
                              Unit - Exp(-((o.lambda2 + Mul(x.v, o.lambda3))
                                           * m))))]))
    IN  IF InSupport(o, x) THEN Div(unscaled_cdf, o.norm)
        ELSE IF x.v < o.a THEN 0
        ELSE Unit

\* -------------------------------------------------------- theta_agsne

theta_agsne_init(statvar, pars) ==
    [cls |-> "theta_agsne", G |-> statvar[1], S |-> statvar[2],
     N |-> statvar[3], E |-> statvar[4], a |-> Unit, b |-> statvar[4] * Unit,
     lambda1 |-> pars[1], beta |-> pars[2], lambda3 |-> pars[3],
     z |-> pars[4]]

theta_agsne_pdf(o, x, m, n) ==
    IF InSupport(o, x)
    THEN Mul(Div(o.lambda3 * m * n,
                 Exp(-(o.lambda3 * m * n)) - Exp(-(o.lambda3 * m * n * o.E))),
             Exp(-Mul(o.lambda3 * m * n, x.v)))
    ELSE 0

theta_agsne_cdf(o, x, m, n) ==
    IF InSupport(o, x)
    THEN Div(Exp(-(o.lambda3 * m * n)) - Exp(-Mul(o.lambda3 * m * n, x.v)),
             Exp(-(o.lambda3 * m * n)) - Exp(-(o.lambda3 * m * n * o.E)))
    ELSE IF x.v < o.a THEN 0
    ELSE Unit

\* -------------------------------------------------------- instances

Instances ==
    {psi_epsilon_init(1, N0, E0, p[1], p[2]) :
        N0 \in 2..3, E0 \in 2..MaxE, p \in MeteParams} \cup
    {psi_epsilon_approx_init(1, MaxN, E0, p[1], p[2]) :
        E0 \in 2..MaxE, p \in MeteParams} \cup
    {theta_epsilon_init(1, MaxN, E0, p[1], p[2]) :
        E0 \in 2..MaxE, p \in MeteParams} \cup
    {gamma_agsne_init(sv, p) : sv \in GammaStatVars, p \in AgsneParams} \cup
    {sad_agsne_init(sv, p) : sv \in SadStatVars, p \in AgsneParams} \cup
    {psi_agsne_init(sv, p) : sv \in PsiStatVars, p \in AgsneParams} \cup
    {theta_agsne_init(sv, p) : sv \in ThetaStatVars, p \in AgsneParams}

\* -------------------------------------------------------------- state

VARIABLES
    self,       \* the distribution object
    module_S,   \* the binding of the global name S
    call,       \* the method called last and its arguments
    ret,        \* what that call returned or raised
    pc,         \* "idle", or the place of a running rvs
    uniforms,   \* sad_agsne.rvs: rand_list as drawn
    rand_list,  \* sad_agsne.rvs: rand_list once sorted
    i, j, cdf_cum,
    out,
    rand_exp    \* theta_epsilon.rvs

vars == <<self, module_S, call, ret, pc, uniforms, rand_list, i, j, cdf_cum,
          out, rand_exp>>

frame == <<uniforms, rand_list, i, j, cdf_cum, out, rand_exp>>

NoCall == [method |-> "none", x |-> NoArg, m |-> 0, n |-> 0, size |-> 0]

Init ==
    /\ self \in Instances
    /\ module_S \in Globals
    /\ call = NoCall
    /\ ret = Pending
    /\ pc = "idle"
    /\ uniforms = << >>
    /\ rand_list = << >>
    /\ i = 0
    /\ j = 0
    /\ cdf_cum = 0
    /\ out = << >>
    /\ rand_exp = 0

\* the caller has the result of its call and is free to call again; the
\* locals of the call that returned are gone
caller_continues ==
    /\ pc = "idle"
    /\ call # NoCall
    /\ call' = NoCall
    /\ ret' = Pending
    /\ uniforms' = << >>
    /\ rand_list' = << >>
    /\ i' = 0
    /\ j' = 0
    /\ cdf_cum' = 0
    /\ out' = << >>
    /\ rand_exp' = 0
    /\ UNCHANGED <<self, module_S, pc>>

\* a method without a loop: called and returned in one step
Returns(cls, method, x, m, n, r) ==
    /\ pc = "idle"
    /\ call = NoCall
    /\ self.cls = cls
    /\ call' = [method |-> method, x |-> x, m |-> m, n |-> n, size |-> 0]
    /\ ret' = r
    /\ UNCHANGED <<self, module_S, pc, frame>>

call_psi_epsilon_pdf ==
    \E x \in XInputs :
        Returns("psi_epsilon", "pdf", x, 0, 0, Value(psi_epsilon_pdf(self, x)))

call_psi_epsilon_cdf ==
    \E x \in XInputs, integral \in Integrals :
        Returns("psi_epsilon", "cdf", x, 0, 0,
                Value(psi_epsilon_cdf(self, x, integral)))

call_psi_epsilon_approx_pdf ==
    \E x \in XInputs :
        Returns("psi_epsilon_approx", "pdf", x, 0, 0,
                Value(psi_epsilon_approx_pdf(self, x)))

call_psi_epsilon_approx_cdf ==
    \E x \in XInputs :
        Returns("psi_epsilon_approx", "cdf", x, 0, 0,
                Value(psi_epsilon_approx_cdf(self, x)))

call_theta_epsilon_pdf ==
    \E x \in XInputs, n \in Abundances :
        Returns("theta_epsilon", "pdf", x, 0, n,
                Value(theta_epsilon_pdf(self, x.v, n)))

call_theta_epsilon_cdf ==
    \E x \in XInputs, n \in Abundances :
        Returns("theta_epsilon", "cdf", x, 0, n,
                Value(theta_epsilon_cdf(self, x, n)))

call_gamma_agsne_pmf ==
    \E x \in XInputs :
        Returns("gamma_agsne", "pmf", x, 0, 0, Value(gamma_agsne_pmf(self, x)))

call_gamma_agsne_cdf ==
    \E x \in XInputs :
        Returns("gamma_agsne", "cdf", x, 0, 0, Value(gamma_agsne_cdf(self, x)))

call_sad_agsne_pmf ==
    \E x \in XInputs :
        Returns("sad_agsne", "pmf", x, 0, 0, Value(sad_agsne_pmf(self, x)))

call_sad_agsne_logpmf ==
    \E x \in XInputs :
        Returns("sad_agsne", "logpmf", x, 0, 0, sad_agsne_logpmf(self, x))

call_sad_agsne_cdf ==
    \E x \in XInputs :
        Returns("sad_agsne", "cdf", x, 0, 0, Value(sad_agsne_cdf(self, x)))

call_psi_agsne_pdf ==
    \E x \in XInputs :
        Returns("psi_agsne", "pdf", x, 0, 0, psi_agsne_pdf(self, module_S, x))

call_psi_agsne_cdf ==
    \E x \in XInputs :
        Returns("psi_agsne", "cdf", x, 0, 0, Value(psi_agsne_cdf(self, x)))

call_theta_agsne_pdf ==
    \E x \in XInputs, m \in Abundances, n \in Abundances :
        Returns("theta_agsne", "pdf", x, m, n,
                Value(theta_agsne_pdf(self, x, m, n)))

call_theta_agsne_cdf ==
    \E x \in XInputs, m \in Abundances, n \in Abundances :
        Returns("theta_agsne", "cdf", x, m, n,
                Value(theta_agsne_cdf(self, x, m, n)))

\* ------------------------------------------------------ sad_agsne.rvs

\* cdf_cum += self.pmf(i), without the running sum
AccumulateForgetful(cum, p) == p

\* cdf_cum += self.pmf(i)
Accumulate(cum, p) == cum + p

\* out = []; the uniforms drawn and sorted; i, j = 1, 0; cdf_cum = 0
sad_agsne_rvs_call ==
    \E size \in 0..MaxSize :
      \E drawn \in [1..size -> Uniforms] :
        /\ pc = "idle"
        /\ call = NoCall
        /\ self.cls = "sad_agsne"
        /\ call' = [method |-> "rvs", x |-> NoArg, m |-> 0, n |-> 0,
                    size |-> size]
        /\ ret' = Pending
        /\ out' = << >>
        /\ uniforms' = drawn
        /\ rand_list' = SortSeq(drawn, LAMBDA u, v : u < v)
        /\ i' = 1
        /\ j' = 0
        /\ cdf_cum' = 0
        /\ pc' = "sad_while"
        /\ UNCHANGED <<self, module_S, rand_exp>>

\* while i <= self.b + 1: cdf_cum += self.pmf(i)
sad_agsne_rvs_accumulate ==
    /\ pc = "sad_while"
    /\ i * Unit <= self.b + Unit
    /\ cdf_cum' = Accumulate(cdf_cum, sad_agsne_pmf(self, IntArg(i)))
    /\ pc' = "sad_inner"
    /\ UNCHANGED <<self, module_S, call, ret, uniforms, rand_list, i, j, out,
                   rand_exp>>

\* rand_list[j] of an empty rand_list
sad_agsne_rvs_index_error ==
    /\ pc = "sad_inner"
    /\ j >= Len(rand_list)
    /\ ret' = Raised("IndexError")
    /\ pc' = "idle"
    /\ UNCHANGED <<self, module_S, call, frame>>

\* while cdf_cum >= rand_list[j]: out.append(i); j += 1;
\* if j == size: return np.array(out)
sad_agsne_rvs_emit ==
    /\ pc = "sad_inner"
    /\ j < Len(rand_list)
    /\ cdf_cum >= rand_list[j + 1]
    /\ out' = Append(out, i)
    /\ j' = j + 1
    /\ IF j + 1 = call.size
       THEN ret' = ArrayResult(Append(out, i)) /\ pc' = "idle"
       ELSE UNCHANGED <<ret, pc>>
    /\ UNCHANGED <<self, module_S, call, uniforms, rand_list, i, cdf_cum,
                   rand_exp>>

\* the inner while ends: i += 1
sad_agsne_rvs_advance ==
    /\ pc = "sad_inner"
    /\ j < Len(rand_list)
    /\ ~(cdf_cum >= rand_list[j + 1])
    /\ i' = i + 1
    /\ pc' = "sad_while"
    /\ UNCHANGED <<self, module_S, call, ret, uniforms, rand_list, j, cdf_cum,
                   out, rand_exp>>

\* the outer while ends and the function falls off its end
sad_agsne_rvs_exhausted ==
    /\ pc = "sad_while"
    /\ ~(i * Unit <= self.b + Unit)
    /\ ret' = NoneResult
    /\ pc' = "idle"
    /\ UNCHANGED <<self, module_S, call, frame>>

\* -------------------------------------------------- theta_epsilon.rvs

\* a loop that takes every draw
KeepsAnyDraw(d, b) == FALSE

\* while rand_exp > self.b
Redraws(d, b) == d > b

\* out = []
theta_epsilon_rvs_call ==
    \E n \in Abundances, size \in 0..MaxSize :
        /\ pc = "idle"
        /\ call = NoCall
        /\ self.cls = "theta_epsilon"
        /\ call' = [method |-> "rvs", x |-> NoArg, m |-> 0, n |-> n,
                    size |-> size]
        /\ ret' = Pending
        /\ out' = << >>
        /\ i' = 0
        /\ pc' = "te_for"
        /\ UNCHANGED <<self, module_S, uniforms, rand_list, j, cdf_cum,
                       rand_exp>>

\* for i in range(size): rand_exp = trunc_expon.rvs(self.lambda2 * n, 1)
theta_epsilon_rvs_draw ==
    \E d \in Draws :
        /\ pc = "te_for"
        /\ i < call.size
        /\ rand_exp' = d
        /\ pc' = "te_while"
        /\ UNCHANGED <<self, module_S, call, ret, uniforms, rand_list, i, j,
                       cdf_cum, out>>

\* while rand_exp > self.b: rand_exp = trunc_expon.rvs(self.lambda2 * n, 1)
theta_epsilon_rvs_redraw(d) ==
    /\ pc = "te_while"
    /\ Redraws(rand_exp, self.b)
    /\ rand_exp' = d
    /\ UNCHANGED <<self, module_S, call, ret, pc, uniforms, rand_list, i, j,
                   cdf_cum, out>>

\* out.append(rand_exp)
theta_epsilon_rvs_append ==
    /\ pc = "te_while"
    /\ ~Redraws(rand_exp, self.b)
    /\ out' = Append(out, rand_exp)
    /\ i' = i + 1
    /\ pc' = "te_for"
    /\ UNCHANGED <<self, module_S, call, ret, uniforms, rand_list, j, cdf_cum,
                   rand_exp>>

\* return out
theta_epsilon_rvs_return ==
    /\ pc = "te_for"
    /\ ~(i < call.size)
    /\ ret' = ListResult(out)
    /\ pc' = "idle"
    /\ UNCHANGED <<self, module_S, call, frame>>

\* ------------------------------------------------------ specification

Next ==
    \/ caller_continues
    \/ call_psi_epsilon_pdf
    \/ call_psi_epsilon_cdf
    \/ call_psi_epsilon_approx_pdf
    \/ call_psi_epsilon_approx_cdf
    \/ call_theta_epsilon_pdf
    \/ call_theta_epsilon_cdf
    \/ call_gamma_agsne_pmf
    \/ call_gamma_agsne_cdf
    \/ call_sad_agsne_pmf
    \/ call_sad_agsne_logpmf
    \/ call_sad_agsne_cdf
    \/ call_psi_agsne_pdf
    \/ call_psi_agsne_cdf
    \/ call_theta_agsne_pdf
    \/ call_theta_agsne_cdf
    \/ sad_agsne_rvs_call
    \/ sad_agsne_rvs_accumulate
    \/ sad_agsne_rvs_index_error
    \/ sad_agsne_rvs_emit
    \/ sad_agsne_rvs_advance
    \/ sad_agsne_rvs_exhausted
    \/ theta_epsilon_rvs_call
    \/ theta_epsilon_rvs_draw
    \/ \E d \in Draws : theta_epsilon_rvs_redraw(d)
    \/ theta_epsilon_rvs_append
    \/ theta_epsilon_rvs_return

Spec == Init /\ [][Next]_vars

\* The interpreter keeps running a loop it is in, and the truncated
\* exponential source yields a draw that is not above b again and again.
FairSpec ==
    /\ Spec
    /\ WF_vars(theta_epsilon_rvs_draw)
    /\ WF_vars(theta_epsilon_rvs_append)
    /\ WF_vars(theta_epsilon_rvs_return)
    /\ WF_vars(\E d \in Draws : d <= self.b /\ theta_epsilon_rvs_redraw(d))

\* ------------------------------------------------------------- claims

Errors == {"IndexError", "NameError", "ValueError"}

BelowSupport == call.x.v < self.a
AboveSupport == call.x.v > self.b

\* C1: every cdf returns exactly 0 for x < a and exactly 1 for x > b.
CdfExactOutsideSupport ==
    call.method = "cdf" =>
        /\ BelowSupport => ret = Value(0)
        /\ AboveSupport => ret = Value(Unit)

\* C2: every pdf or pmf returns exactly 0 for x < a and for x > b.
DensityZeroOutsideSupport ==
    (call.method \in {"pdf", "pmf"} /\ (BelowSupport \/ AboveSupport))
        => ret = Value(0)

PmfOf(o, k) ==
    IF o.cls = "gamma_agsne" THEN gamma_agsne_pmf(o, IntArg(k))
    ELSE sad_agsne_pmf(o, IntArg(k))

CdfOf(o, x) ==
    IF o.cls = "gamma_agsne" THEN gamma_agsne_cdf(o, x)
    ELSE sad_agsne_cdf(o, x)

\* pmf(1) + ... + pmf(k), summed as the sweep of rvs sums it
CumPmf(o, k) == SumSeq([t \in 1..k |-> PmfOf(o, t)])

IntegerValued == self.cls \in {"gamma_agsne", "sad_agsne"}

\* C3: for gamma_agsne and sad_agsne, cdf(x) for x in [1, b] is the sum of
\* pmf(i) over i = 1 .. floor(x), to within one rounding for each term
\* summed, and cdf(b) = 1.
CdfIsCumulativePmf ==
    (IntegerValued /\ call.method = "cdf" /\ InSupport(self, call.x)) =>
        /\ ret.kind = "value"
        /\ Abs(ret.val - CumPmf(self, Floor(call.x.v))) <= Floor(call.x.v)
        /\ call.x.v = self.b => ret.val = Unit

\* C4: for gamma_agsne and sad_agsne, cdf(x) <= cdf(y) for all x <= y in
\* the support, integer or not.
CdfMonotone ==
    (IntegerValued /\ call.method = "cdf" /\ InSupport(self, call.x)) =>
        \A y \in XInputs :
            (InSupport(self, y) /\ call.x.v <= y.v) =>
                ret.val <= CdfOf(self, y)

SadRvsOver == self.cls = "sad_agsne" /\ call.method = "rvs" /\ pc = "idle"

\* C5: sad_agsne.rvs(size), for every size >= 0, returns an array of
\* exactly size values, each an integer in [1, N], in ascending order.
RvsReturnsSortedSample ==
    SadRvsOver =>
        /\ ret.kind = "array"
        /\ Len(ret.arr) = call.size
        /\ \A k \in 1..Len(ret.arr) : ret.arr[k] \in 1..self.N
        /\ \A k \in 1..(Len(ret.arr) - 1) : ret.arr[k] <= ret.arr[k + 1]

\* C6: when the sweep of sad_agsne.rvs passes x = N + 1 with fewer than
\* size values emitted, the call ends in an error, not in a normal return.
ShortSweepRaises ==
    (SadRvsOver /\ i * Unit > self.b + Unit /\ Len(out) < call.size)
        => ret.kind \in Errors

\* C7: sad_agsne.logpmf(x) ends in an error when x is outside [1, N] or
\* is not an integer, and returns a number for every integer x in [1, N].
LogpmfErrorsOffSupport ==
    (self.cls = "sad_agsne" /\ call.method = "logpmf") =>
        /\ (~InSupport(self, call.x) \/ call.x.v % Unit # 0)
               => ret.kind \in Errors
        /\ (InSupport(self, call.x) /\ call.x.isint) => ret.kind = "value"

\* the smallest x in 1 .. N whose accumulated mass is >= u (0: there is none)
InverseCdf(o, u) ==
    IF \E x \in 1..o.N : CumPmf(o, x) >= u
    THEN CHOOSE x \in 1..o.N :
            /\ CumPmf(o, x) >= u
            /\ \A y \in 1..(x - 1) : CumPmf(o, y) < u
    ELSE 0

\* C8: in sad_agsne.rvs the value emitted for the j-th smallest uniform is
\* the smallest x in 1 .. N whose accumulated mass pmf(1) + ... + pmf(x) is
\* >= that uniform; the sweep has emitted, before it moves on to i, exactly
\* the uniforms whose such x is below i; and the array returned is the
\* inverse cdf of each uniform drawn, sorted.
SweepInvertsCdf ==
    (self.cls = "sad_agsne" /\ call.method = "rvs") =>
        /\ \A k \in 1..Len(out) : out[k] = InverseCdf(self, rand_list[k])
        /\ (pc = "sad_while" /\ i <= self.N + 1) =>
               \A k \in 1..Len(rand_list) :
                   (k <= Len(out)) <=>
                       (InverseCdf(self, rand_list[k]) \in 1..(i - 1))
        /\ (pc = "idle" /\ ret.kind = "array") =>
               ret.arr = SortSeq([k \in 1..call.size |->
                                     InverseCdf(self, uniforms[k])],
                                 LAMBDA u, v : u < v)

\* two uniforms drawn out of order, inverted to different values, the
\* first of them past x = 1
SweepReturnedTwoValues ==
    /\ SadRvsOver
    /\ ret.kind = "array"
    /\ call.size = 2
    /\ uniforms[1] > uniforms[2]
    /\ 1 < ret.arr[1]
    /\ ret.arr[1] < ret.arr[2]

\* C9: for x in [1, E], psi_agsne.pdf(x) is the series summed over
\* m = 1 .. S, S the instance's own species count, over the norm, whatever
\* the name S is bound to outside the instance.
PdfUsesOwnS ==
    (self.cls = "psi_agsne" /\ call.method = "pdf"
        /\ InSupport(self, call.x))
        => ret = Value(PsiAgsneSeries(self, call.x, self.S))

ThetaRvsRunning == pc \in {"te_for", "te_while"}

ThetaRvsReturned ==
    /\ pc = "idle"
    /\ self.cls = "theta_epsilon"
    /\ call.method = "rvs"
    /\ ret.kind = "list"
    /\ Len(ret.arr) = call.size
    /\ \A k \in 1..Len(ret.arr) : ret.arr[k] <= self.b

\* C10: given a source that yields a draw <= E0 again and again,
\* theta_epsilon.rvs(n, size) returns, and returns a list of exactly size
\* entries none of which exceeds E0.
ThetaRvsReturnsWithinBound == ThetaRvsRunning ~> ThetaRvsReturned

\* a list of two returned, its last entry a draw equal to the bound
ThetaRvsReturnedTwo ==
    /\ ThetaRvsReturned
    /\ call.size = 2
    /\ ret.arr[2] = self.b

====
